---- MODULE Spec2Model ----
(***************************************************************************)
(* Client-side session and preference persistence layer of the dashboard   *)
(* frontend: lib/cookies.ts (DualStore), lib/auth.ts (SessionCache) and     *)
(* lib/preferences.ts (PreferenceRegistry).                                 *)
(*                                                                         *)
(* The two backends are document.cookie (network-visible, modelled as the   *)
(* cookie jar `jar`) and window.localStorage (local-only, modelled as the   *)
(* function `ls`).  Every exported operation is one atomic action: the      *)
(* layer is synchronous and runs inside one turn of the event loop.         *)
(***************************************************************************)
EXTENDS Integers, Sequences, FiniteSets, TLC

VARIABLES
    isBrowser,    \* typeof window !== 'undefined' (module constant of each file)
    jar,          \* document.cookie: set of [name, value, ttl] cookies
    ls,           \* window.localStorage: function from the keys present to strings
    now,          \* Date.now(), milliseconds
    cookieFault,  \* how document.cookie behaves: "ok", "throw", "drop"
    lsFault,      \* how localStorage behaves: "ok", "quota", "throw"
    envTz,        \* what Intl.DateTimeFormat().resolvedOptions().timeZone yields
    last,         \* the last call made: [op, key, arg, pre, ret, threw]
    page,         \* the list component on screen: [route, logsOpen, refetch]
    request,      \* the last protected API request issued: [kind, bearer]
    view,         \* logs modal and action state of the list component, with
                  \* its requests in flight
    hook          \* state of useMetrics, with its polls in flight

vars == <<isBrowser, jar, ls, now, cookieFault, lsFault, envTz, last, page, request,
          view, hook>>

----------------------------------------------------------------------------
(* Bounds of the model *)

\* the clock advances MaxTicks times at most
MaxTicks == 3

\* one clock advance, in milliseconds
TickMs == 30000

----------------------------------------------------------------------------
(* Program constants *)

TOKEN_KEY == "auth_token"
TOKEN_EXPIRY_KEY == "auth_token_expiry"
TIMEZONE == "history_timezone"
NETWORK_UNIT == "network_unit"
PREFERENCE_KEYS == {TIMEZONE, NETWORK_UNIT}

\* 1 minute buffer, in milliseconds
SkewBufferMs == 60000

\* cookie lifetimes in days
TokenDays == 30
PreferenceDays == 365
DefaultDays == 30

----------------------------------------------------------------------------
(* JavaScript values *)

\* JavaScript null (what localStorage.getItem and getCookie return on a miss)
NULL == "<null>"

\* !v for a string-or-null v: null and the empty string are falsy
Falsy(v) == v = NULL \/ v = ""

Truthy(v) == ~Falsy(v)

\* a || b
Or(a, b) == IF Truthy(a) THEN a ELSE b

BoolStr(b) == IF b THEN "true" ELSE "false"

----------------------------------------------------------------------------
(* The two backends *)

\* `cookie_${name}`
PrefixKey(name) == "cookie_" \o name

\* encodeURIComponent / decodeURIComponent: the jar holds the escaped form
EncodeURIComponent(v) == <<"uri", v>>

DecodeURIComponent(e) == e[2]

\* a store state threaded through a call: the jar, localStorage and whether
\* an exception is propagating
Store(j, l) == [jar |-> j, ls |-> l, ex |-> FALSE]

Put(f, k, v) == [x \in (DOMAIN f) \cup {k} |-> IF x = k THEN v ELSE f[x]]

Del(f, k) == [x \in (DOMAIN f) \ {k} |-> f[x]]

\* localStorage.getItem(k) on a working localStorage
LsGet(S, k) == IF k \in DOMAIN S.ls THEN S.ls[k] ELSE NULL

\* localStorage.setItem(k, v): throws when storage is full or disabled
LsSet(S, k, v) ==
    IF S.ex THEN S
    ELSE IF lsFault # "ok" THEN [S EXCEPT !.ex = TRUE]
    ELSE [S EXCEPT !.ls = Put(S.ls, k, v)]

\* localStorage.removeItem(k): throws only when storage is disabled
LsRemove(S, k) ==
    IF S.ex THEN S
    ELSE IF lsFault = "throw" THEN [S EXCEPT !.ex = TRUE]
    ELSE [S EXCEPT !.ls = Del(S.ls, k)]

HasCookie(j, name) == \E c \in j : c.name = name

CookieOf(j, name) == CHOOSE c \in j : c.name = name

\* document.cookie = `${name}=${value};expires=<now + days>;path=/`
DocCookieWrite(S, name, value, days) ==
    IF S.ex THEN S
    ELSE IF cookieFault = "throw" THEN [S EXCEPT !.ex = TRUE]
    ELSE IF cookieFault = "drop" THEN S
    ELSE [S EXCEPT !.jar = {c \in S.jar : c.name # name}
                            \cup {[name |-> name, value |-> value, ttl |-> days]}]

\* document.cookie = `${name}=;expires=Thu, 01 Jan 1970 00:00:00 UTC;path=/;`
DocCookieDelete(S, name) ==
    IF S.ex THEN S
    ELSE IF cookieFault = "throw" THEN [S EXCEPT !.ex = TRUE]
    ELSE IF cookieFault = "drop" THEN S
    ELSE [S EXCEPT !.jar = {c \in S.jar : c.name # name}]

----------------------------------------------------------------------------
(* lib/cookies.ts *)

\* setCookie whose catch block only logs
setCookieNoFallback(S, name, value, days) ==
    IF ~isBrowser THEN S
    ELSE LET tried == LsSet(DocCookieWrite(S, name, EncodeURIComponent(value), days),
                            PrefixKey(name), value)
         IN  [tried EXCEPT !.ex = FALSE]

\* setCookie that writes document.cookie only
setCookieCookieOnly(S, name, value, days) ==
    IF ~isBrowser THEN S
    ELSE LET tried == DocCookieWrite(S, name, EncodeURIComponent(value), days)
         IN  IF tried.ex
             THEN LsSet([tried EXCEPT !.ex = FALSE], PrefixKey(name), value)
             ELSE tried

setCookie(S, name, value, days) ==
    IF ~isBrowser THEN S
    ELSE LET tried == LsSet(DocCookieWrite(S, name, EncodeURIComponent(value), days),
                            PrefixKey(name), value)
         IN  IF tried.ex
             THEN LsSet([tried EXCEPT !.ex = FALSE], PrefixKey(name), value)
             ELSE tried

\* the catch block of getCookie
getCookieCatch(S, name) ==
    IF lsFault = "throw"
    THEN [s |-> [S EXCEPT !.ex = TRUE], v |-> NULL]
    ELSE [s |-> [S EXCEPT !.ex = FALSE],
          v |-> Or(LsGet(S, PrefixKey(name)), LsGet(S, name))]

\* getCookie probing the legacy entry before the prefixed one
getCookieLegacyFirst(S, name) ==
    IF ~isBrowser THEN [s |-> S, v |-> NULL]
    ELSE IF cookieFault = "throw" THEN getCookieCatch(S, name)
    ELSE IF HasCookie(S.jar, name)
    THEN LET value == DecodeURIComponent(CookieOf(S.jar, name).value)
             synced == LsSet(S, PrefixKey(name), value)
         IN  IF synced.ex THEN getCookieCatch(synced, name)
             ELSE [s |-> synced, v |-> value]
    ELSE IF lsFault = "throw" THEN getCookieCatch(S, name)
    ELSE IF Truthy(LsGet(S, name)) THEN [s |-> S, v |-> LsGet(S, name)]
    ELSE LET stored == LsGet(S, PrefixKey(name))
         IN  IF Truthy(stored)
             THEN LET restored == setCookie(S, name, stored, DefaultDays)
                  IN  IF restored.ex THEN getCookieCatch(restored, name)
                      ELSE [s |-> restored, v |-> stored]
             ELSE [s |-> S, v |-> LsGet(S, name)]

\* getCookie that returns the cookie without syncing localStorage
getCookieNoSync(S, name) ==
    IF ~isBrowser THEN [s |-> S, v |-> NULL]
    ELSE IF cookieFault = "throw" THEN getCookieCatch(S, name)
    ELSE IF HasCookie(S.jar, name)
    THEN [s |-> S, v |-> DecodeURIComponent(CookieOf(S.jar, name).value)]
    ELSE IF lsFault = "throw" THEN getCookieCatch(S, name)
    ELSE LET stored == LsGet(S, PrefixKey(name))
         IN  IF Truthy(stored)
             THEN LET restored == setCookie(S, name, stored, DefaultDays)
                  IN  IF restored.ex THEN getCookieCatch(restored, name)
                      ELSE [s |-> restored, v |-> stored]
             ELSE [s |-> S, v |-> LsGet(S, name)]

\* getCookie that returns the prefixed entry without restoring the cookie
getCookieNoRestore(S, name) ==
    IF ~isBrowser THEN [s |-> S, v |-> NULL]
    ELSE IF cookieFault = "throw" THEN getCookieCatch(S, name)
    ELSE IF HasCookie(S.jar, name)
    THEN LET value == DecodeURIComponent(CookieOf(S.jar, name).value)
             synced == LsSet(S, PrefixKey(name), value)
         IN  IF synced.ex THEN getCookieCatch(synced, name)
             ELSE [s |-> synced, v |-> value]
    ELSE IF lsFault = "throw" THEN getCookieCatch(S, name)
    ELSE LET stored == LsGet(S, PrefixKey(name))
         IN  IF Truthy(stored) THEN [s |-> S, v |-> stored]
             ELSE [s |-> S, v |-> LsGet(S, name)]

\* getCookie that copies a legacy value into the prefixed entry only
getCookieHalfRepair(S, name) ==
    IF ~isBrowser THEN [s |-> S, v |-> NULL]
    ELSE IF cookieFault = "throw" THEN getCookieCatch(S, name)
    ELSE IF HasCookie(S.jar, name)
    THEN LET value == DecodeURIComponent(CookieOf(S.jar, name).value)
             synced == LsSet(S, PrefixKey(name), value)
         IN  IF synced.ex THEN getCookieCatch(synced, name)
             ELSE [s |-> synced, v |-> value]
    ELSE IF lsFault = "throw" THEN getCookieCatch(S, name)
    ELSE LET stored == LsGet(S, PrefixKey(name))
         IN  IF Truthy(stored)
             THEN LET restored == setCookie(S, name, stored, DefaultDays)
                  IN  IF restored.ex THEN getCookieCatch(restored, name)
                      ELSE [s |-> restored, v |-> stored]
             ELSE IF Truthy(LsGet(S, name))
             THEN LET copied == LsSet(S, PrefixKey(name), LsGet(S, name))
                  IN  IF copied.ex THEN getCookieCatch(copied, name)
                      ELSE [s |-> copied, v |-> LsGet(S, name)]
             ELSE [s |-> S, v |-> LsGet(S, name)]

getCookie(S, name) ==
    IF ~isBrowser THEN [s |-> S, v |-> NULL]
    ELSE IF cookieFault = "throw" THEN getCookieCatch(S, name)
    ELSE IF HasCookie(S.jar, name)
    THEN LET value == DecodeURIComponent(CookieOf(S.jar, name).value)
             synced == LsSet(S, PrefixKey(name), value)
         IN  IF synced.ex THEN getCookieCatch(synced, name)
             ELSE [s |-> synced, v |-> value]
    ELSE IF lsFault = "throw" THEN getCookieCatch(S, name)
    ELSE LET stored == LsGet(S, PrefixKey(name))
         IN  IF Truthy(stored)
             THEN LET restored == setCookie(S, name, stored, DefaultDays)
                  IN  IF restored.ex THEN getCookieCatch(restored, name)
                      ELSE [s |-> restored, v |-> stored]
             ELSE [s |-> S, v |-> LsGet(S, name)]

\* removeCookie that deletes the cookie and the legacy entry only
removeCookieKeepsPrefixed(S, name) ==
    IF ~isBrowser THEN S
    ELSE LET tried == LsRemove(DocCookieDelete(S, name), name)
         IN  IF tried.ex
             THEN LsRemove([tried EXCEPT !.ex = FALSE], name)
             ELSE tried

removeCookie(S, name) ==
    IF ~isBrowser THEN S
    ELSE LET tried == LsRemove(LsRemove(DocCookieDelete(S, name), PrefixKey(name)), name)
         IN  IF tried.ex
             THEN LsRemove(LsRemove([tried EXCEPT !.ex = FALSE], PrefixKey(name)), name)
             ELSE tried

\* the name of the probe cookie of cookiesAvailable
ProbeName == "test"

\* a cookie written without an expires attribute lasts for the session
SessionDays == 0

\* what may stand before "test" in the name of a cookie of the page
NamePrefixes == {"", "la"}

\* document.cookie.indexOf('test=') !== -1: the text is searched anywhere in
\* the string "n1=v1; n2=v2; ...", so every cookie whose name ends in "test"
\* matches (values hold no "=", which encodeURIComponent escapes)
CookieStringHasProbe(j) ==
    \E c \in j : \E prefix \in NamePrefixes : c.name = prefix \o ProbeName

cookiesAvailable(S) ==
    IF ~isBrowser THEN [s |-> S, b |-> FALSE]
    ELSE LET written == DocCookieWrite(S, ProbeName, EncodeURIComponent("1"), SessionDays)
         IN  IF written.ex THEN [s |-> [written EXCEPT !.ex = FALSE], b |-> FALSE]
             ELSE LET available == CookieStringHasProbe(written.jar)
                      deleted == DocCookieDelete(written, ProbeName)
                  IN  IF deleted.ex THEN [s |-> [deleted EXCEPT !.ex = FALSE], b |-> FALSE]
                      ELSE [s |-> deleted, b |-> available]

----------------------------------------------------------------------------
(* lib/auth.ts *)

\* the value of a payload's exp member
NoExp == [t |-> "undef", n |-> 0, s |-> ""]
NumExp(n) == [t |-> "num", n |-> n, s |-> ""]
StrExp(s) == [t |-> "str", n |-> 0, s |-> s]

JwtA == "h.eyJleHAiOjkwfQ.s"
JwtB == "h.eyJleHAiOjE1MH0.s"
JwtNoExp == "h.e30.s"
JwtStrExp == "h.eyJleHAiOiJuZXZlciJ9.s"
JwtBadJson == "h.bm90anNvbg.s"
JwtBadBase64 == "not.a.jwt"
JwtNoSegment == "nosegments"

\* what the steps of decodeToken find in a raw token: whether split('.')[1]
\* is a non-empty segment, whether atob accepts it, whether JSON.parse
\* accepts the text, and the exp member of the parsed payload
TokenShape(token) ==
    CASE token = JwtA         -> [seg |-> TRUE,  b64 |-> TRUE,  json |-> TRUE,  exp |-> NumExp(90)]
      [] token = JwtB         -> [seg |-> TRUE,  b64 |-> TRUE,  json |-> TRUE,  exp |-> NumExp(150)]
      [] token = JwtNoExp     -> [seg |-> TRUE,  b64 |-> TRUE,  json |-> TRUE,  exp |-> NoExp]
      [] token = JwtStrExp    -> [seg |-> TRUE,  b64 |-> TRUE,  json |-> TRUE,  exp |-> StrExp("never")]
      [] token = JwtBadJson   -> [seg |-> TRUE,  b64 |-> TRUE,  json |-> FALSE, exp |-> NoExp]
      [] token = JwtBadBase64 -> [seg |-> TRUE,  b64 |-> FALSE, json |-> FALSE, exp |-> NoExp]
      [] OTHER                -> [seg |-> FALSE, b64 |-> FALSE, json |-> FALSE, exp |-> NoExp]

\* null, or the parsed payload
decodeToken(token) ==
    LET shape == TokenShape(token)
    IN  IF ~shape.seg THEN [ok |-> FALSE, exp |-> NoExp]
        ELSE IF ~shape.b64 \/ ~shape.json THEN [ok |-> FALSE, exp |-> NoExp]
        ELSE [ok |-> TRUE, exp |-> shape.exp]

\* !!exp
ExpTruthy(exp) ==
    CASE exp.t = "num" -> exp.n # 0
      [] exp.t = "str" -> exp.s # ""
      [] OTHER -> FALSE

\* exp * 1000: a number, or NaN when exp is not numeric
Number(n) == [nan |-> FALSE, n |-> n]
NaN == [nan |-> TRUE, n |-> 0]
TimesThousand(exp) == IF exp.t = "num" THEN Number(exp.n * 1000) ELSE NaN

\* a <= b: false as soon as one side is NaN
LessEq(a, b) == ~a.nan /\ ~b.nan /\ a.n <= b.n

\* exp.toString()
ExpToString(exp) == IF exp.t = "num" THEN ToString(exp.n) ELSE exp.s

\* isTokenExpired comparing exp, in seconds, with a time in milliseconds
isTokenExpiredSeconds(token) ==
    LET decoded == decodeToken(token)
    IN  IF ~decoded.ok \/ ~ExpTruthy(decoded.exp) THEN TRUE
        ELSE LessEq(IF decoded.exp.t = "num" THEN Number(decoded.exp.n) ELSE NaN,
                    Number(now + SkewBufferMs))

isTokenExpired(token) ==
    LET decoded == decodeToken(token)
    IN  IF ~decoded.ok \/ ~ExpTruthy(decoded.exp) THEN TRUE
        ELSE LessEq(TimesThousand(decoded.exp), Number(now + SkewBufferMs))

\* setToken without its isBrowser guard
setTokenUnguarded(S, token) ==
    LET stored == LsSet(setCookie(S, TOKEN_KEY, token, TokenDays), TOKEN_KEY, token)
        decoded == decodeToken(token)
    IN  IF decoded.ok /\ ExpTruthy(decoded.exp)
        THEN LsSet(stored, TOKEN_EXPIRY_KEY, ExpToString(decoded.exp))
        ELSE stored

setToken(S, token) ==
    IF ~isBrowser THEN S
    ELSE LET stored == LsSet(setCookie(S, TOKEN_KEY, token, TokenDays), TOKEN_KEY, token)
             decoded == decodeToken(token)
         IN  IF decoded.ok /\ ExpTruthy(decoded.exp)
             THEN LsSet(stored, TOKEN_EXPIRY_KEY, ExpToString(decoded.exp))
             ELSE stored

\* removeToken that leaves the cached expiry behind
removeTokenKeepsExpiry(S) ==
    IF ~isBrowser THEN S
    ELSE LsRemove(removeCookie(S, TOKEN_KEY), TOKEN_KEY)

\* removeToken that dereferences the cached expiry before removing it
removeTokenStrict(S) ==
    IF ~isBrowser THEN S
    ELSE LET removed == LsRemove(removeCookie(S, TOKEN_KEY), TOKEN_KEY)
         IN  IF LsGet(removed, TOKEN_EXPIRY_KEY) = NULL
             THEN [removed EXCEPT !.ex = TRUE]
             ELSE LsRemove(removed, TOKEN_EXPIRY_KEY)

removeToken(S) ==
    IF ~isBrowser THEN S
    ELSE LsRemove(LsRemove(removeCookie(S, TOKEN_KEY), TOKEN_KEY), TOKEN_EXPIRY_KEY)

\* the localStorage fallback of getToken and getPreference:
\* value = localStorage.getItem(key); if (value) setCookie(key, value, days)
Fallback(S, key, days) ==
    IF lsFault = "throw" THEN [s |-> [S EXCEPT !.ex = TRUE], v |-> NULL]
    ELSE LET value == LsGet(S, key)
         IN  IF Truthy(value)
             THEN [s |-> setCookie(S, key, value, days), v |-> value]
             ELSE [s |-> S, v |-> value]

\* getToken that hides an expired token without removing it
getTokenKeepsExpired(S) ==
    IF ~isBrowser THEN [s |-> S, v |-> NULL]
    ELSE LET fromCookie == getCookie(S, TOKEN_KEY)
             found == IF fromCookie.s.ex \/ Truthy(fromCookie.v) THEN fromCookie
                      ELSE Fallback(fromCookie.s, TOKEN_KEY, TokenDays)
         IN  IF found.s.ex THEN [s |-> found.s, v |-> NULL]
             ELSE IF Truthy(found.v) /\ isTokenExpired(found.v)
             THEN [s |-> found.s, v |-> NULL]
             ELSE found

\* getToken that takes a token with a cached expiry as checked
getTokenTrustsCache(S) ==
    IF ~isBrowser THEN [s |-> S, v |-> NULL]
    ELSE LET fromCookie == getCookie(S, TOKEN_KEY)
             found == IF fromCookie.s.ex \/ Truthy(fromCookie.v) THEN fromCookie
                      ELSE Fallback(fromCookie.s, TOKEN_KEY, TokenDays)
         IN  IF found.s.ex THEN [s |-> found.s, v |-> NULL]
             ELSE IF /\ Truthy(found.v)
                     /\ LsGet(found.s, TOKEN_EXPIRY_KEY) = NULL
                     /\ isTokenExpired(found.v)
             THEN [s |-> removeToken(found.s), v |-> NULL]
             ELSE found

getToken(S) ==
    IF ~isBrowser THEN [s |-> S, v |-> NULL]
    ELSE LET fromCookie == getCookie(S, TOKEN_KEY)
             found == IF fromCookie.s.ex \/ Truthy(fromCookie.v) THEN fromCookie
                      ELSE Fallback(fromCookie.s, TOKEN_KEY, TokenDays)
         IN  IF found.s.ex THEN [s |-> found.s, v |-> NULL]
             ELSE IF Truthy(found.v) /\ isTokenExpired(found.v)
             THEN [s |-> removeToken(found.s), v |-> NULL]
             ELSE found

\* isAuthenticated that only looks for a stored token
isAuthenticatedCookieOnly(S) ==
    IF ~isBrowser THEN [s |-> S, b |-> FALSE]
    ELSE LET got == getCookie(S, TOKEN_KEY)
         IN  [s |-> got.s, b |-> ~got.s.ex /\ Truthy(got.v)]

isAuthenticated(S) ==
    IF ~isBrowser THEN [s |-> S, b |-> FALSE]
    ELSE LET got == getToken(S)
         IN  IF got.s.ex THEN [s |-> got.s, b |-> FALSE]
             ELSE IF Falsy(got.v) THEN [s |-> got.s, b |-> FALSE]
             ELSE IF isTokenExpired(got.v) THEN [s |-> removeToken(got.s), b |-> FALSE]
             ELSE [s |-> got.s, b |-> TRUE]

----------------------------------------------------------------------------
(* lib/preferences.ts *)

\* envTz when Intl.DateTimeFormat() throws
TzThrows == "<throws>"

\* detectLocalTimezone without the || 'UTC'
detectLocalTimezoneRaw ==
    IF ~isBrowser THEN "UTC"
    ELSE IF envTz = TzThrows THEN "UTC"
    ELSE envTz

detectLocalTimezone ==
    IF ~isBrowser THEN "UTC"
    ELSE IF envTz = TzThrows THEN "UTC"
    ELSE Or(envTz, "UTC")

getPreference(S, key, defaultValue) ==
    IF ~isBrowser THEN [s |-> S, v |-> defaultValue]
    ELSE LET fromCookie == getCookie(S, key)
             found == IF fromCookie.s.ex \/ Truthy(fromCookie.v) THEN fromCookie
                      ELSE Fallback(fromCookie.s, key, PreferenceDays)
         IN  [s |-> found.s, v |-> Or(found.v, defaultValue)]

setPreference(S, key, value) ==
    IF ~isBrowser THEN S
    ELSE LsSet(setCookie(S, key, value, PreferenceDays), key, value)

removePreference(S, key) ==
    IF ~isBrowser THEN S
    ELSE LsRemove(removeCookie(S, key), key)

\* getTimezone that saves the detected timezone as the preference
getTimezonePersists(S) ==
    LET stored == getPreference(S, TIMEZONE, "")
    IN  IF Falsy(stored.v) /\ ~stored.s.ex
        THEN [s |-> setPreference(stored.s, TIMEZONE, detectLocalTimezone),
              v |-> detectLocalTimezone]
        ELSE stored

getTimezone(S) ==
    LET stored == getPreference(S, TIMEZONE, "")
    IN  IF Falsy(stored.v) THEN [s |-> stored.s, v |-> detectLocalTimezone]
        ELSE stored

\* getNetworkUnit that trusts the stored value
getNetworkUnitUnchecked(S) == getPreference(S, NETWORK_UNIT, "MB/s")

getNetworkUnit(S) ==
    LET value == getPreference(S, NETWORK_UNIT, "MB/s")
    IN  [s |-> value.s,
         v |-> IF value.v = "Mbps" \/ value.v = "MB/s" THEN value.v ELSE "MB/s"]

\* clearAll that stops after the first key
clearAllTimezoneOnly(S) == removePreference(S, TIMEZONE)

\* Object.values(PREFERENCE_KEYS).forEach(removePreference): the first key
\* that throws ends the loop

clearAll(S) ==
    LET first == removePreference(S, TIMEZONE)
    IN  IF first.ex THEN first ELSE removePreference(first, NETWORK_UNIT)

----------------------------------------------------------------------------
(* The calls a page makes, one action each *)

\* what an independent read of each location of a key yields
CookieValue(j, name) ==
    IF HasCookie(j, name) THEN DecodeURIComponent(CookieOf(j, name).value) ELSE NULL

StorageValue(l, k) == IF k \in DOMAIN l THEN l[k] ELSE NULL

Snapshot(j, l, key) ==
    [cookie |-> CookieValue(j, key),
     prefixed |-> StorageValue(l, PrefixKey(key)),
     legacy |-> StorageValue(l, key)]

\* a call: its name, the key it works on, its argument, the locations of the
\* key before it, its return value and whether it threw
Call(op, key, arg, pre, ret, threw) ==
    [op |-> op, key |-> key, arg |-> arg, pre |-> pre, ret |-> ret, threw |-> threw]

NoCall == Call("none", "", NULL, Snapshot({}, <<>>, ""), NULL, FALSE)

\* the call returns ret, or throws, leaving the backends as S has them
Made(S, op, key, arg, ret) ==
    /\ jar' = S.jar
    /\ ls' = S.ls
    /\ last' = Call(op, key, arg, Snapshot(jar, ls, key),
                    IF S.ex THEN NULL ELSE ret, S.ex)
    /\ UNCHANGED <<isBrowser, now, cookieFault, lsFault, envTz, hook>>

\* a call made outside the list components
Return(S, op, key, arg, ret) ==
    /\ Made(S, op, key, arg, ret)
    /\ UNCHANGED <<page, request, view>>

SetToken(token) ==
    Return(setToken(Store(jar, ls), token), "setToken", TOKEN_KEY, token, NULL)

GetToken ==
    LET got == getToken(Store(jar, ls))
    IN  Return(got.s, "getToken", TOKEN_KEY, NULL, got.v)

RemoveToken ==
    Return(removeToken(Store(jar, ls)), "removeToken", TOKEN_KEY, NULL, NULL)

IsAuthenticated ==
    LET got == isAuthenticated(Store(jar, ls))
    IN  Return(got.s, "isAuthenticated", TOKEN_KEY, NULL, BoolStr(got.b))

GetTimezone ==
    LET got == getTimezone(Store(jar, ls))
    IN  Return(got.s, "getTimezone", TIMEZONE, NULL, got.v)

SetTimezone(timezone) ==
    Return(setPreference(Store(jar, ls), TIMEZONE, timezone),
           "setTimezone", TIMEZONE, timezone, NULL)

GetNetworkUnit ==
    LET got == getNetworkUnit(Store(jar, ls))
    IN  Return(got.s, "getNetworkUnit", NETWORK_UNIT, NULL, got.v)

SetNetworkUnit(unit) ==
    Return(setPreference(Store(jar, ls), NETWORK_UNIT, unit),
           "setNetworkUnit", NETWORK_UNIT, unit, NULL)

ClearAll ==
    Return(clearAll(Store(jar, ls)), "clearAll", TIMEZONE, NULL, NULL)

\* direct use of the exports of lib/cookies.ts
SetCookie(name, value) ==
    Return(setCookie(Store(jar, ls), name, value, DefaultDays),
           "setCookie", name, value, NULL)

GetCookie(name) ==
    LET got == getCookie(Store(jar, ls), name)
    IN  Return(got.s, "getCookie", name, NULL, got.v)

RemoveCookie(name) ==
    Return(removeCookie(Store(jar, ls), name), "removeCookie", name, NULL, NULL)

CookiesAvailable ==
    LET got == cookiesAvailable(Store(jar, ls))
    IN  Return(got.s, "cookiesAvailable", ProbeName, NULL, BoolStr(got.b))

----------------------------------------------------------------------------
(* components/services/ServiceList and components/containers/ContainerList *)

Components == {"services", "containers"}

\* the actions of handleServiceAction and handleContainerAction
ItemActions(c) ==
    IF c = "services" THEN {"start", "stop", "restart", "enable", "disable"}
    ELSE {"start", "stop", "restart", "remove"}

\* response.status of a request, as the component tells them apart
Statuses == {200, 401, 500}

\* nothing shown in the logs modal, no action running, nothing in flight
NoView == [open |-> FALSE, title |-> "",
           logs |-> [target |-> "", outcome |-> "none"], logsLoading |-> FALSE,
           actionLoading |-> NULL, flights |-> {}]

\* no component is on screen yet
NoPage == [route |-> "none", logsOpen |-> FALSE, refetch |-> FALSE]

NoRequest == [kind |-> "none", bearer |-> NULL]

\* fetch(url, {headers: {Authorization: `Bearer ${token}`}})
Fetch(kind, token) == [kind |-> kind, bearer |-> token]

\* fetchServices / fetchContainers: the token is read and the list is
\* requested; a 401 sends the router to /login.  A throwing getToken is
\* caught by the handler before any request is made.
listRequested(c, got, status) ==
    /\ Made(got.s, "getToken", TOKEN_KEY, NULL, got.v)
    /\ request' = IF got.s.ex THEN request ELSE Fetch("list", got.v)
    /\ page' = IF ~got.s.ex /\ status = 401
               THEN [route |-> "login", logsOpen |-> FALSE, refetch |-> FALSE]
               ELSE [page EXCEPT !.route = c, !.refetch = FALSE]

fetchList(c, S, status) == listRequested(c, getToken(S), status)

\* useEffect on mount: isAuthenticated guards the first fetch
mounted(c, guard) ==
    IF guard.s.ex \/ ~guard.b
    THEN /\ Made(guard.s, "isAuthenticated", TOKEN_KEY, NULL, BoolStr(guard.b))
         /\ page' = [route |-> "login", logsOpen |-> FALSE, refetch |-> FALSE]
         /\ request' = request
    ELSE \E status \in Statuses : fetchList(c, guard.s, status)

UseEffect(c) ==
    /\ isBrowser
    /\ page.route \in {"none", "login"}
    /\ mounted(c, isAuthenticated(Store(jar, ls)))
    /\ UNCHANGED view

\* setInterval(fetchContainers, 10000) of ContainerList
PollContainers ==
    /\ page.route = "containers"
    /\ \E status \in Statuses : fetchList("containers", Store(jar, ls), status)
    /\ UNCHANGED view

\* a handler that reads the token and issues one request
requested(kind, got, nextPage) ==
    /\ Made(got.s, "getToken", TOKEN_KEY, NULL, got.v)
    /\ request' = IF got.s.ex THEN request ELSE Fetch(kind, got.v)
    /\ page' = IF got.s.ex THEN page ELSE nextPage

handleRequest(kind, nextPage) == requested(kind, getToken(Store(jar, ls)), nextPage)

\* The handlers below are taken up to the request they issue, the response
\* arriving at once; what they show in the modal and on the buttons is left
\* to the steps of the next section.

\* handleServiceAction / handleContainerAction: on an ok response the list
\* is fetched again
HandleAction(c, action) ==
    /\ page.route = c
    /\ \E status \in Statuses :
           handleRequest(action, [page EXCEPT !.refetch = (status = 200)])
    /\ UNCHANGED view

\* await fetchServices() / await fetchContainers() of the handler
FetchAgain(c) ==
    /\ page.route = c
    /\ page.refetch
    /\ \E status \in Statuses : fetchList(c, Store(jar, ls), status)
    /\ UNCHANGED view

HandleViewLogs(c) ==
    /\ page.route = c
    /\ handleRequest("logs", [page EXCEPT !.logsOpen = TRUE])
    /\ UNCHANGED view

\* if (!currentLogService) return
HandleRefreshLogs(c) ==
    /\ page.route = c
    /\ page.logsOpen
    /\ handleRequest("logs", page)
    /\ UNCHANGED view

\* handlePullImage of ContainerList, with an image name typed in
HandlePullImage ==
    /\ page.route = "containers"
    /\ handleRequest("pull", page)
    /\ UNCHANGED view

ComponentSteps(c) ==
    \/ UseEffect(c)
    \/ \E action \in ItemActions(c) : HandleAction(c, action)
    \/ FetchAgain(c)
    \/ HandleViewLogs(c)
    \/ HandleRefreshLogs(c)

----------------------------------------------------------------------------
(* The logs modal and the action buttons of the two list components: each
   handler runs up to its fetch, and the rest of it runs when the response
   arrives, in any order with the other steps *)

\* at most MaxInFlight requests of a component await their response
MaxInFlight == 2

\* the services or containers listed
Items == {"nginx", "redis"}

\* an awaited fetch is [n, kind, key]: its number, the handler that awaits
\* it and what it is for; a new one takes the least number not in use
NextSlot(flights) ==
    CHOOSE n \in 1..MaxInFlight :
        /\ \A f \in flights : f.n # n
        /\ \A m \in 1..(n - 1) : \E f \in flights : f.n = m

\* a response arrives: no call of lib/auth is made
Responded ==
    /\ last' = NoCall
    /\ UNCHANGED <<isBrowser, jar, ls, now, cookieFault, lsFault, envTz, request, hook>>

\* the awaited fetch of a logs handler, or its catch block when getToken
\* threw before the fetch
logsRequested(target, got, n) ==
    IF got.s.ex
    THEN [view EXCEPT !.logs = [target |-> target, outcome |-> "error"],
                      !.logsLoading = FALSE]
    ELSE [view EXCEPT !.logsLoading = TRUE,
                      !.flights = @ \cup {[n |-> n, kind |-> "logs", key |-> target]}]

viewLogs(target, got, n) ==
    /\ requested("logs", got, [page EXCEPT !.logsOpen = TRUE])
    /\ view' = [logsRequested(target, got, n) EXCEPT !.open = TRUE, !.title = target]

\* handleViewLogs, from the Logs button of a row; the open modal covers
\* the rows
ViewLogs(c, target) ==
    /\ page.route = c
    /\ ~view.open
    /\ Cardinality(view.flights) < MaxInFlight
    /\ viewLogs(target, getToken(Store(jar, ls)), NextSlot(view.flights))

refreshLogs(got, n) ==
    /\ requested("logs", got, page)
    /\ view' = logsRequested(view.title, got, n)

\* handleRefreshLogs, from the Refresh button of the modal, which is
\* disabled while logsLoading
RefreshLogs(c) ==
    /\ page.route = c
    /\ view.open
    /\ ~view.logsLoading
    /\ view.title # ""
    /\ Cardinality(view.flights) < MaxInFlight
    /\ refreshLogs(getToken(Store(jar, ls)), NextSlot(view.flights))

\* onOpenChange={setLogsOpen}: the modal is closed, nothing is cancelled
CloseLogs ==
    /\ view.open
    /\ view' = [view EXCEPT !.open = FALSE]
    /\ page' = page
    /\ Responded

\* the rest of handleViewLogs / handleRefreshLogs after the await
LogsSettled(outcome) ==
    /\ \E f \in view.flights :
           /\ f.kind = "logs"
           /\ view' = [view EXCEPT !.logs = [target |-> f.key, outcome |-> outcome],
                                   !.logsLoading = FALSE,
                                   !.flights = @ \ {f}]
    /\ page' = page
    /\ Responded

\* handleServiceAction / handleContainerAction up to the fetch, or through
\* catch and finally when getToken threw
actionStarted(key, got, n) ==
    /\ requested(key, got, page)
    /\ view' = IF got.s.ex
               THEN [view EXCEPT !.actionLoading = NULL]
               ELSE [view EXCEPT !.actionLoading = key,
                                 !.flights = @ \cup {[n |-> n, kind |-> "action",
                                                        key |-> key]}]

\* a button of a row is disabled only while actionLoading is its own key
\* and its key is `${serviceName}-${action}`
StartAction(c, item, action) ==
    /\ page.route = c
    /\ ~view.open
    /\ view.actionLoading # item \o "-" \o action
    /\ Cardinality(view.flights) < MaxInFlight
    /\ actionStarted(item \o "-" \o action, getToken(Store(jar, ls)),
                     NextSlot(view.flights))

\* finally { setActionLoading(null) }
actionFinished(f) == [view EXCEPT !.actionLoading = NULL, !.flights = @ \ {f}]

\* await fetchServices() / fetchContainers() after an ok response
listAwaited(f, got) ==
    /\ requested("list", got, page)
    /\ view' = IF got.s.ex
               THEN actionFinished(f)
               ELSE [view EXCEPT !.flights = (@ \ {f}) \cup {[f EXCEPT !.kind = "list"]}]

\* the response of the action arrives
ActionSettled(ok) ==
    \E f \in view.flights :
        /\ f.kind = "action"
        /\ IF ok
           THEN listAwaited(f, getToken(Store(jar, ls)))
           ELSE /\ view' = actionFinished(f)
                /\ page' = page
                /\ Responded

\* the response of the list fetched after the action arrives; a 401
\* leaves for the login page, which unmounts the component
ListSettled(status) ==
    /\ \E f \in view.flights :
           /\ f.kind = "list"
           /\ view' = IF status = 401 THEN NoView ELSE actionFinished(f)
    /\ page' = IF status = 401
               THEN [route |-> "login", logsOpen |-> FALSE, refetch |-> FALSE]
               ELSE page
    /\ Responded

----------------------------------------------------------------------------
(* hooks/useMetrics *)

\* at most MaxPolls calls of fetchMetrics await their response
MaxPolls == 2

\* useMetrics(interval = 2000)
DefaultInterval == 2000

\* a property of the response data: missing, null, an object without
\* 'percent', an object with it
Parts == {"undefined", "null", "object", "percent"}

Data(type, cpu, memory, disk, network) ==
    [type |-> type, cpu |-> cpu, memory |-> memory, disk |-> disk, network |-> network]

\* null
NoData == Data("null", "undefined", "undefined", "undefined", "undefined")

\* null, a value that is no object such as a string, and the objects
Datas ==
    {NoData, Data("string", "undefined", "undefined", "undefined", "undefined")} \cup
    {Data("object", cpu, memory, disk, network) : cpu \in Parts, memory \in Parts,
                                                  disk \in Parts, network \in Parts}

\* part !== null
NotNull(part) == part # "null"

\* typeof part === 'object'
TypeofObject(part) == part \in {"null", "object", "percent"}

\* 'percent' in part
HasPercent(part) == part = "percent"

isValidMetricsLoose(data) == data.type = "object"

isValidMetrics(data) ==
    IF data.type = "null" \/ data.type # "object"
    THEN FALSE
    ELSE /\ NotNull(data.cpu) /\ TypeofObject(data.cpu) /\ HasPercent(data.cpu)
         /\ NotNull(data.memory) /\ TypeofObject(data.memory) /\ HasPercent(data.memory)
         /\ NotNull(data.disk) /\ TypeofObject(data.disk) /\ HasPercent(data.disk)
         /\ NotNull(data.network) /\ TypeofObject(data.network)

\* how await api.metrics.getCurrent() ends: with response.data, with an
\* Error thrown, or with another value thrown
Response(kind, data, message) == [kind |-> kind, data |-> data, message |-> message]

NoResponse == Response("none", NoData, "")

Responses ==
    {Response("data", data, "") : data \in Datas} \cup
    {Response("error", NoData, message) : message \in {"", "Network Error"}} \cup
    {Response("thrown", NoData, "")}

\* useState(null), useState(true), useState(null), before the effect ran;
\* `settled` is how the poll that settled last ended
NoHook ==
    [metrics |-> NoData, loading |-> TRUE, error |-> NULL,
     effect |-> "none", timer |-> FALSE, interval |-> DefaultInterval,
     polls |-> 0, settled |-> NoResponse]

\* fetchMetrics up to its await
fetchMetrics(h) == [h EXCEPT !.polls = @ + 1]

\* fetchMetrics after its await
fetched(h, response) ==
    IF response.kind = "data"
    THEN IF isValidMetrics(response.data)
         THEN [h EXCEPT !.metrics = response.data, !.error = NULL, !.loading = FALSE]
         ELSE [h EXCEPT !.error = "Invalid metrics data received from server",
                        !.loading = FALSE]
    ELSE [h EXCEPT !.error = IF response.kind = "error"
                             THEN response.message
                             ELSE "Failed to fetch metrics",
                   !.loading = FALSE]

\* the body of the effect: the initial fetch, then setInterval
effect(h, interval) ==
    [fetchMetrics(h) EXCEPT !.effect = "run", !.timer = TRUE, !.interval = interval]

cleanupKeepsInterval(h) == [h EXCEPT !.effect = "cleaned"]

\* the function the effect returns: clearInterval(intervalId)
cleanup(h) == [h EXCEPT !.effect = "cleaned", !.timer = FALSE]

\* useMetrics makes no call of lib/auth and touches no list component
Hooked ==
    UNCHANGED <<isBrowser, jar, ls, now, cookieFault, lsFault, envTz, last, page,
                request, view>>

\* the effect runs on mount, and again when the component is mounted again
RunEffect(interval) ==
    /\ hook.effect # "run"
    /\ hook.polls < MaxPolls
    /\ hook' = effect(hook, interval)
    /\ Hooked

\* the interval elapses
IntervalElapsed ==
    /\ hook.timer
    /\ hook.polls < MaxPolls
    /\ hook' = fetchMetrics(hook)
    /\ Hooked

\* the component unmounts
Cleanup ==
    /\ hook.effect = "run"
    /\ hook' = cleanup(hook)
    /\ Hooked

\* [interval] changes: the cleanup runs, then the effect
ChangeInterval(interval) ==
    /\ hook.effect = "run"
    /\ interval # hook.interval
    /\ hook.polls < MaxPolls
    /\ hook' = effect(cleanup(hook), interval)
    /\ Hooked

\* a poll settles
MetricsSettled(response) ==
    /\ hook.polls > 0
    /\ hook' = [fetched(hook, response) EXCEPT !.polls = @ - 1, !.settled = response]
    /\ Hooked

----------------------------------------------------------------------------
(* The environment *)

\* time passes
Tick ==
    /\ now < MaxTicks * TickMs
    /\ now' = now + TickMs
    /\ last' = NoCall
    /\ UNCHANGED <<isBrowser, jar, ls, cookieFault, lsFault, envTz, page, request, view, hook>>

\* a backend starts or stops failing
SetFault(cf, lf) ==
    /\ isBrowser
    /\ <<cf, lf>> # <<cookieFault, lsFault>>
    /\ cookieFault' = cf
    /\ lsFault' = lf
    /\ last' = NoCall
    /\ UNCHANGED <<isBrowser, jar, ls, now, envTz, page, request, view, hook>>

\* the browser drops a cookie whose expires date has passed
ExpireCookie(name) ==
    /\ HasCookie(jar, name)
    /\ jar' = {c \in jar : c.name # name}
    /\ last' = NoCall
    /\ UNCHANGED <<isBrowser, ls, now, cookieFault, lsFault, envTz, page, request, view, hook>>

\* the environment reports another timezone
ChangeTimezone(tz) ==
    /\ isBrowser
    /\ tz # envTz
    /\ envTz' = tz
    /\ last' = NoCall
    /\ UNCHANGED <<isBrowser, jar, ls, now, cookieFault, lsFault, page, request, view, hook>>

\* cookies of the page that this layer does not own
ForeignNames == {"test", "latest", "sid"}

\* another script of the page writes a cookie: document.cookie is shared by
\* everything that runs on the origin
ForeignCookie(name) ==
    /\ isBrowser
    /\ cookieFault = "ok"
    /\ ~HasCookie(jar, name)
    /\ jar' = jar \cup {[name |-> name, value |-> EncodeURIComponent("x"),
                         ttl |-> SessionDays]}
    /\ last' = NoCall
    /\ UNCHANGED <<isBrowser, ls, now, cookieFault, lsFault, envTz, page, request, view, hook>>

----------------------------------------------------------------------------
(* Specifications *)

CookieFaults == {"ok", "throw", "drop"}
LsFaults == {"ok", "quota", "throw"}
Keys == {TOKEN_KEY, TIMEZONE, NETWORK_UNIT}

EmptyStorage == <<>>

InitWith(browsers, tz) ==
    /\ isBrowser \in browsers
    /\ jar = {}
    /\ ls = EmptyStorage
    /\ now = 0
    /\ cookieFault = "ok"
    /\ lsFault = "ok"
    /\ envTz = tz
    /\ last = NoCall
    /\ page = NoPage
    /\ request = NoRequest
    /\ view = NoView
    /\ hook = NoHook

AuthCalls(tokens) ==
    \/ \E token \in tokens : SetToken(token)
    \/ GetToken
    \/ RemoveToken
    \/ IsAuthenticated

PreferenceCalls(timezones, units) ==
    \/ GetTimezone
    \/ \E timezone \in timezones : SetTimezone(timezone)
    \/ GetNetworkUnit
    \/ \E unit \in units : SetNetworkUnit(unit)
    \/ ClearAll

Faults == \E cf \in CookieFaults, lf \in LsFaults : SetFault(cf, lf)

\* every public operation on failing backends with cookie expiry, at one
\* instant (JwtA is valid, JwtBadBase64 is not)
Init == InitWith(BOOLEAN, "Europe/Berlin")

Next ==
    \/ AuthCalls({JwtA, JwtBadBase64})
    \/ PreferenceCalls({"Asia/Tokyo"}, {"Mbps"})
    \/ Faults
    \/ \E name \in Keys : ExpireCookie(name)

Spec == Init /\ [][Next]_vars

\* every public operation on working backends as time passes, no cookie expiry
AllTokens == {JwtA, JwtB, JwtNoExp, JwtStrExp, JwtBadJson, JwtBadBase64, JwtNoSegment}

NextWorking ==
    \/ AuthCalls(AllTokens)
    \/ PreferenceCalls({"Asia/Tokyo", ""}, {"Mbps", "MB/s"})
    \/ Tick

SpecWorking == Init /\ [][NextWorking]_vars

\* the session cache on failing backends as time passes, with cookie expiry
InitAuth == InitWith({TRUE}, "Europe/Berlin")

NextAuth ==
    \/ AuthCalls({JwtA, JwtB, JwtBadBase64})
    \/ Tick
    \/ Faults
    \/ ExpireCookie(TOKEN_KEY)

SpecAuth == InitAuth /\ [][NextAuth]_vars

\* the dual store used directly, on failing backends
StoreValues == {"", "v1", "v2"}

\* localStorage.setItem(key, value) of a caller, next to its setCookie
SetLegacy(name, value) ==
    /\ isBrowser
    /\ lsFault = "ok"
    /\ ls' = Put(ls, name, value)
    /\ last' = NoCall
    /\ UNCHANGED <<isBrowser, jar, now, cookieFault, lsFault, envTz, page, request, view, hook>>

NextStore ==
    \/ \E value \in StoreValues : SetCookie(NETWORK_UNIT, value)
    \/ GetCookie(NETWORK_UNIT)
    \/ RemoveCookie(NETWORK_UNIT)
    \/ \E value \in StoreValues : SetLegacy(NETWORK_UNIT, value)
    \/ Faults
    \/ ExpireCookie(NETWORK_UNIT)

SpecStore == InitAuth /\ [][NextStore]_vars

\* every public operation on working backends, started on the localStorage
\* of an earlier release that wrote the unprefixed keys only (the entries
\* getCookie reads "for backward compatibility")
LegacyStorage(token, timezone, unit) ==
    LET all == [k \in Keys |-> CASE k = TOKEN_KEY -> token
                                 [] k = TIMEZONE -> timezone
                                 [] OTHER -> unit]
    IN  [k \in {x \in Keys : all[x] # NULL} |-> all[k]]

InitLegacy ==
    /\ isBrowser = TRUE
    /\ jar = {}
    /\ \E token \in {NULL, JwtA}, timezone \in {NULL, "Europe/Paris"},
          unit \in {NULL, "Mbps", "xyz", ""} :
           ls = LegacyStorage(token, timezone, unit)
    /\ now = 0
    /\ cookieFault = "ok"
    /\ lsFault = "ok"
    /\ envTz = "Europe/Berlin"
    /\ last = NoCall
    /\ page = NoPage
    /\ request = NoRequest
    /\ view = NoView
    /\ hook = NoHook

NextLegacy ==
    \/ AuthCalls({JwtB})
    \/ PreferenceCalls({"Asia/Tokyo"}, {"MB/s"})
    \/ Tick

SpecLegacy == InitLegacy /\ [][NextLegacy]_vars

\* the network unit alone on failing backends with cookie expiry; the values
\* include strings that are no NetworkUnit (the type is erased at run time)
NextUnit ==
    \/ GetNetworkUnit
    \/ \E unit \in {"Mbps", "MB/s", "xyz", ""} : SetNetworkUnit(unit)
    \/ ClearAll
    \/ Faults
    \/ ExpireCookie(NETWORK_UNIT)
    \/ \E value \in {"Mbps", "xyz"} : SetLegacy(NETWORK_UNIT, value)

SpecUnit == Init /\ [][NextUnit]_vars

\* the timezone alone on failing backends with cookie expiry, in an
\* environment whose answer changes
EnvTimezones == {"Europe/Berlin", "America/Lima", "", TzThrows}

NextTimezone ==
    \/ GetTimezone
    \/ \E timezone \in {"Asia/Tokyo", ""} : SetTimezone(timezone)
    \/ ClearAll
    \/ Faults
    \/ ExpireCookie(TIMEZONE)
    \/ \E tz \in EnvTimezones : ChangeTimezone(tz)

SpecTimezone == Init /\ [][NextTimezone]_vars

\* both preferences on failing backends as time passes, with cookie expiry
NextPrefs ==
    \/ PreferenceCalls({"Asia/Tokyo", "Europe/Paris"}, {"Mbps", "MB/s"})
    \/ Tick
    \/ Faults
    \/ \E name \in PREFERENCE_KEYS : ExpireCookie(name)

SpecPrefs == InitAuth /\ [][NextPrefs]_vars

\* the probe of cookiesAvailable on a jar that other scripts and this layer
\* write, on failing backends
NextProbe ==
    \/ CookiesAvailable
    \/ \E name \in ForeignNames : ForeignCookie(name)
    \/ \E name \in ForeignNames : ExpireCookie(name)
    \/ SetNetworkUnit("Mbps")
    \/ GetNetworkUnit
    \/ Faults

SpecProbe == Init /\ [][NextProbe]_vars

\* what the three locations of a key may hold when the page loads: values
\* of this and of earlier releases, and what failed writes left behind
LocationValues(key) ==
    CASE key = TOKEN_KEY -> {NULL, "", JwtA, JwtB}
      [] key = TIMEZONE -> {NULL, "", "Asia/Tokyo", "Europe/Paris"}
      [] OTHER -> {NULL, "", "Mbps", "xyz"}

\* a jar and a localStorage that hold key alone
JarWith(key, cookie) ==
    IF cookie = NULL THEN {}
    ELSE {[name |-> key, value |-> EncodeURIComponent(cookie),
           ttl |-> IF key = TOKEN_KEY THEN TokenDays ELSE PreferenceDays]}

StorageWith(key, prefixed, legacy) ==
    LET all == [k \in {PrefixKey(key), key} |-> IF k = key THEN legacy ELSE prefixed]
    IN  [k \in {x \in DOMAIN all : all[x] # NULL} |-> all[k]]

InitAnyStore ==
    /\ isBrowser = TRUE
    /\ \E key \in Keys :
           \E cookie \in LocationValues(key), prefixed \in LocationValues(key),
              legacy \in LocationValues(key) :
               /\ jar = JarWith(key, cookie)
               /\ ls = StorageWith(key, prefixed, legacy)
    /\ now = 0
    /\ cookieFault = "ok"
    /\ lsFault = "ok"
    /\ envTz = "Europe/Berlin"
    /\ last = NoCall
    /\ page = NoPage
    /\ request = NoRequest
    /\ view = NoView
    /\ hook = NoHook

\* reads only, from every content of the three locations of one key
NextReads ==
    \/ GetToken
    \/ IsAuthenticated
    \/ GetTimezone
    \/ GetNetworkUnit
    \/ Tick

SpecReads == InitAnyStore /\ [][NextReads]_vars

\* the two list components over the session cache as time passes; the
\* token is set by the login page and removed by a logout
NextPages ==
    \/ \E c \in Components : ComponentSteps(c)
    \/ PollContainers
    \/ HandlePullImage
    \/ SetToken(JwtA)
    \/ RemoveToken
    \/ Tick

SpecPages == InitAuth /\ [][NextPages]_vars

\* a list component on screen with its modal and buttons, the responses
\* arriving in any order
NextModal ==
    \/ SetToken(JwtA)
    \/ \E c \in Components : UseEffect(c)
    \/ \E c \in Components, target \in Items : ViewLogs(c, target)
    \/ \E c \in Components : RefreshLogs(c)
    \/ \E c \in Components, item \in Items :
           \E action \in ItemActions(c) : StartAction(c, item, action)
    \/ CloseLogs
    \/ \E outcome \in {"ok", "error"} : LogsSettled(outcome)
    \/ \E ok \in BOOLEAN : ActionSettled(ok)
    \/ \E status \in Statuses : ListSettled(status)

SpecModal == InitAuth /\ [][NextModal]_vars

\* useMetrics in a component that mounts, changes its interval and unmounts
NextMetrics ==
    \/ \E interval \in {DefaultInterval, 5000} : RunEffect(interval)
    \/ IntervalElapsed
    \/ Cleanup
    \/ \E interval \in {DefaultInterval, 5000} : ChangeInterval(interval)
    \/ \E response \in Responses : MetricsSettled(response)

SpecMetrics == InitAuth /\ [][NextMetrics]_vars

TypeOK ==
    /\ isBrowser \in BOOLEAN
    /\ \A c \in jar : c.name \in Keys \cup ForeignNames
    /\ now \in 0..(MaxTicks * TickMs)
    /\ cookieFault \in CookieFaults
    /\ lsFault \in LsFaults

----------------------------------------------------------------------------
(* Vocabulary of the properties *)

\* both backends work during the call that `last` records (a change of
\* fault is a step of its own and resets `last`)
Working == cookieFault = "ok" /\ lsFault = "ok"

Returned(op) == last.op = op /\ ~last.threw

HasNumericExp(token) == decodeToken(token).ok /\ decodeToken(token).exp.t = "num"

ExpMs(token) == decodeToken(token).exp.n * 1000

\* the raw token a getToken call finds in the locations it was given
FoundToken(pre) ==
    IF Truthy(pre.cookie) THEN pre.cookie
    ELSE IF pre.cookie = NULL /\ Truthy(pre.prefixed) THEN pre.prefixed
    ELSE pre.legacy

TokenAbsent ==
    /\ CookieValue(jar, TOKEN_KEY) = NULL
    /\ StorageValue(ls, PrefixKey(TOKEN_KEY)) = NULL
    /\ StorageValue(ls, TOKEN_KEY) = NULL
    /\ StorageValue(ls, TOKEN_EXPIRY_KEY) = NULL

----------------------------------------------------------------------------
(* C1 *)

\* C1: a token that getToken returns has a numeric exp with
\* now + 60 s < exp at the time of the call.
C1_ReturnedTokenIsFresh ==
    (Returned("getToken") /\ Truthy(last.ret)) =>
        (HasNumericExp(last.ret) /\ now + SkewBufferMs < ExpMs(last.ret))

----------------------------------------------------------------------------
(* C2 *)

\* getToken on a stored token whose exp is at or before now + 60 s, with
\* working backends, returns absent and leaves all four locations absent
C2_ExpiredIsCleared ==
    (last.op = "getToken" /\ isBrowser /\ Working
        /\ Truthy(FoundToken(last.pre))
        /\ HasNumericExp(FoundToken(last.pre))
        /\ ExpMs(FoundToken(last.pre)) <= now + SkewBufferMs)
    => (~last.threw /\ last.ret = NULL /\ TokenAbsent)

\* once the four locations are absent they stay absent, and getToken
\* returns absent, until setToken is called
C2_AbsentUntilSet ==
    (TokenAbsent /\ last'.op # "setToken")
    => (TokenAbsent' /\ (last'.op = "getToken" => last'.ret = NULL))

\* C2: for a stored token with exp at or before now + 60 s, getToken returns
\* absent and clears the cookie, the prefixed entry, the legacy entry and the
\* cached expiry, and every later getToken returns absent until setToken.
C2_ExpiredTokenCleared == []C2_ExpiredIsCleared /\ [][C2_AbsentUntilSet]_vars

C2_Witness ==
    /\ Returned("getToken") /\ isBrowser /\ Working
    /\ last.pre.cookie = JwtA
    /\ ExpMs(JwtA) <= now + SkewBufferMs
    /\ last.ret = NULL
    /\ TokenAbsent

----------------------------------------------------------------------------
(* C3 *)

ValidAt(token) == HasNumericExp(token) /\ now + SkewBufferMs < ExpMs(token)

\* the state right after a successful setToken of a valid token, in a
\* browser, on working backends
JustSetValid == Returned("setToken") /\ isBrowser /\ Working /\ ValidAt(last.arg)

C3_RoundTripStep ==
    JustSetValid =>
        /\ last'.op = "getToken" => (~last'.threw /\ last'.ret = last.arg)
        /\ last'.op = "isAuthenticated" => (~last'.threw /\ last'.ret = "true")

\* C3: immediately after setToken(t) of a token whose exp is more than 60 s
\* ahead, whatever was stored before, getToken returns t and isAuthenticated
\* returns true.
C3_SetThenGet == [][C3_RoundTripStep]_vars

\* setToken(JwtB) has just replaced a stored JwtA that the cookie kept after
\* localStorage had moved on
C3_Witness ==
    /\ JustSetValid
    /\ last.arg = JwtB
    /\ last.pre.cookie = JwtA
    /\ last.pre.prefixed # JwtA
    /\ CookieValue(jar, TOKEN_KEY) = JwtB

----------------------------------------------------------------------------
(* C4 *)

\* C4: a stored token whose payload cannot be decoded, or carries no numeric
\* exp, is never treated as valid: getToken returns absent and
\* isAuthenticated returns false.
C4_FailClosed ==
    (isBrowser /\ Truthy(FoundToken(last.pre)) /\ ~HasNumericExp(FoundToken(last.pre)))
    => /\ Returned("getToken") => last.ret = NULL
       /\ Returned("isAuthenticated") => last.ret = "false"

----------------------------------------------------------------------------
(* C5 *)

\* C5: no public operation propagates an exception, whichever backend
\* throws during the call.
C5_NoThrow == ~last.threw

----------------------------------------------------------------------------
(* C6 *)

\* C6: when the cookie write throws during setCookie(key, value), the call
\* returns normally and the prefixed localStorage entry holds value.
C6_LocalWriteSurvives ==
    (last.op = "setCookie" /\ cookieFault = "throw" /\ lsFault = "ok")
    => (~last.threw /\ StorageValue(ls, PrefixKey(last.key)) = last.arg)

C6_Witness ==
    /\ Returned("setCookie") /\ cookieFault = "throw" /\ lsFault = "ok"
    /\ last.arg = "v2"
    /\ last.pre.prefixed = "v1"
    /\ StorageValue(ls, PrefixKey(last.key)) = "v2"
    /\ CookieValue(jar, last.key) = "v1"

----------------------------------------------------------------------------
(* C7 *)

SetCalls == {"setToken", "setTimezone", "setNetworkUnit"}

\* C7: on working backends without cookie expiry, the cookie and the
\* prefixed localStorage entry of each key are both absent or hold the same
\* value, and right after a set of v both hold v.
C7_BackendsAgree ==
    /\ \A key \in Keys : CookieValue(jar, key) = StorageValue(ls, PrefixKey(key))
    /\ (last.op \in SetCalls /\ isBrowser) =>
           /\ CookieValue(jar, last.key) = last.arg
           /\ StorageValue(ls, PrefixKey(last.key)) = last.arg

C7_Witness ==
    /\ Returned("removeToken")
    /\ last.pre.cookie = JwtB
    /\ CookieValue(jar, TOKEN_KEY) = NULL
    /\ CookieValue(jar, TIMEZONE) = "Asia/Tokyo"
    /\ StorageValue(ls, PrefixKey(TIMEZONE)) = "Asia/Tokyo"

----------------------------------------------------------------------------
(* C8 *)

\* the first location that has an entry
FirstPresent(pre) ==
    IF pre.cookie # NULL THEN pre.cookie
    ELSE IF pre.prefixed # NULL THEN pre.prefixed
    ELSE pre.legacy

\* the first location that has an entry, an empty prefixed entry counting
\* as none
FirstHit(pre) ==
    IF pre.cookie # NULL THEN pre.cookie
    ELSE IF Truthy(pre.prefixed) THEN pre.prefixed
    ELSE pre.legacy

\* C8 as stated: getCookie returns the value of the first location that has
\* one, in the order cookie, prefixed entry, legacy entry.
C8_FirstPresentWins ==
    (Returned("getCookie") /\ Working) => last.ret = FirstPresent(last.pre)

\* C8: getCookie returns the cookie's value if there is a cookie; else the
\* prefixed entry if it is present and not empty; else the legacy entry if
\* present; else absent.
C8_FirstHitWins ==
    (last.op = "getCookie" /\ Working) =>
        (~last.threw /\ last.ret = FirstHit(last.pre))

C8_Witness ==
    /\ Returned("getCookie") /\ Working
    /\ last.pre.cookie = NULL
    /\ last.pre.prefixed = "v1"
    /\ last.pre.legacy = "v2"
    /\ last.ret = "v1"

----------------------------------------------------------------------------
(* C9 *)

\* C9: when the cookie holds v and the prefixed entry is absent or
\* different, getCookie returns v and the prefixed entry then holds v.
C9_CookieRepairsLocal ==
    (last.op = "getCookie" /\ cookieFault # "throw" /\ lsFault = "ok"
        /\ last.pre.cookie # NULL /\ last.pre.prefixed # last.pre.cookie)
    => /\ ~last.threw
       /\ last.ret = last.pre.cookie
       /\ StorageValue(ls, PrefixKey(last.key)) = last.pre.cookie

C9_Witness ==
    /\ Returned("getCookie")
    /\ last.pre.cookie = "v1"
    /\ last.pre.prefixed = "v2"
    /\ last.ret = "v1"
    /\ StorageValue(ls, PrefixKey(last.key)) = "v1"

----------------------------------------------------------------------------
(* C10 *)

\* C10 as stated: when there is no cookie and the prefixed entry holds v,
\* getCookie returns v and the cookie then holds v.
C10_AnyLocalRestoresCookie ==
    (Returned("getCookie") /\ Working
        /\ last.pre.cookie = NULL /\ last.pre.prefixed # NULL)
    => /\ last.ret = last.pre.prefixed
       /\ CookieValue(jar, last.key) = last.pre.prefixed

\* C10: when there is no cookie and the prefixed entry holds a non-empty v,
\* getCookie returns v and the cookie then holds v.
C10_LocalRestoresCookie ==
    (last.op = "getCookie" /\ Working
        /\ last.pre.cookie = NULL /\ Truthy(last.pre.prefixed))
    => /\ ~last.threw
       /\ last.ret = last.pre.prefixed
       /\ CookieValue(jar, last.key) = last.pre.prefixed

C10_Witness ==
    /\ Returned("getCookie") /\ Working
    /\ last.pre.cookie = NULL
    /\ last.pre.prefixed = "v1"
    /\ last.ret = "v1"
    /\ CookieValue(jar, last.key) = "v1"

----------------------------------------------------------------------------
(* C11 *)

ReadCalls == {"getToken", "getTimezone", "getNetworkUnit"}

\* the stored value a getToken / getPreference call finds in the locations
\* it was given
FoundValue(pre) == FoundToken(pre)

\* C11: after a getToken / getPreference call that returns a stored value v
\* on working backends, the cookie and the prefixed entry of the key both
\* hold v, also when v was found under the legacy unprefixed key only.
C11_ReadLeavesBackendsConsistent ==
    (last.op \in ReadCalls /\ isBrowser /\ Working /\ ~last.threw
        /\ Truthy(FoundValue(last.pre)) /\ last.ret = FoundValue(last.pre))
    => /\ CookieValue(jar, last.key) = last.ret
       /\ StorageValue(ls, PrefixKey(last.key)) = last.ret

----------------------------------------------------------------------------
(* C12 *)

TokenStorageKeys == {TOKEN_KEY, PrefixKey(TOKEN_KEY), TOKEN_EXPIRY_KEY}

\* the cookies and localStorage entries that do not belong to the token
OtherCookies(j) == {c \in j : c.name # TOKEN_KEY}

OtherStorage(l) == [k \in (DOMAIN l) \ TokenStorageKeys |-> l[k]]

C12_RemoveStep ==
    /\ (last'.op = "removeToken" /\ isBrowser /\ Working) =>
           /\ ~last'.threw
           /\ TokenAbsent'
           /\ OtherCookies(jar') = OtherCookies(jar)
           /\ OtherStorage(ls') = OtherStorage(ls)
    /\ (Returned("removeToken") /\ isBrowser /\ Working /\ last'.op = "getToken") =>
           (~last'.threw /\ last'.ret = NULL)

\* C12: removeToken on working backends leaves the cookie, the prefixed
\* entry, the legacy entry and the cached expiry of the token absent, the
\* next getToken returns absent, and the entries of history_timezone and
\* network_unit are unchanged.
C12_RemoveTokenClearsOnlyToken == [][C12_RemoveStep]_vars

C12_Witness ==
    /\ Returned("removeToken") /\ isBrowser /\ Working
    /\ last.pre.cookie = JwtA
    /\ last.pre.legacy = JwtA
    /\ TokenAbsent
    /\ CookieValue(jar, TIMEZONE) = "Asia/Tokyo"
    /\ StorageValue(ls, NETWORK_UNIT) = "Mbps"

----------------------------------------------------------------------------
(* C13 *)

C13_SecondRemoveStep ==
    (last.op = "removeToken" /\ last'.op = "removeToken") =>
        /\ jar' = jar
        /\ ls' = ls
        /\ lsFault # "throw" => (~last.threw /\ ~last'.threw)

\* C13: a removeToken that follows a removeToken changes nothing in either
\* backend, and neither call throws, also when every key is already absent
\* (localStorage not being disabled).
C13_RemoveTokenIdempotent == [][C13_SecondRemoveStep]_vars

\* removeToken has returned on keys that were all absent already
C13_Witness ==
    /\ Returned("removeToken") /\ isBrowser
    /\ last.pre.cookie = NULL /\ last.pre.prefixed = NULL /\ last.pre.legacy = NULL
    /\ TokenAbsent
    /\ now > 0

----------------------------------------------------------------------------
(* C14 *)

\* what getToken would do from the current state
WouldGet == getToken(Store(jar, ls))

C14_IsAuthenticatedStep ==
    last'.op = "isAuthenticated" =>
        /\ last'.threw = WouldGet.s.ex
        /\ ~last'.threw => last'.ret = BoolStr(Truthy(WouldGet.v))
        /\ jar' = WouldGet.s.jar
        /\ ls' = WouldGet.s.ls

----------------------------------------------------------------------------
(* C15 *)

TokenCookies(j) == {c \in j : c.name = TOKEN_KEY}

TokenStorage(l) == [k \in (DOMAIN l) \cap TokenStorageKeys |-> l[k]]

\* what setToken(token) alone leaves in empty backends
SetAlone(token) == setToken(Store({}, <<>>), token)

\* C15: after any sequence of setToken and removeToken calls (every
\* interleaving of the calls of two flows, each call atomic), the stored
\* state of the token is the one the last call alone produces.
C15_LastWriteWins ==
    /\ (Returned("setToken") /\ isBrowser) =>
           /\ TokenCookies(jar) = SetAlone(last.arg).jar
           /\ TokenStorage(ls) = SetAlone(last.arg).ls
    /\ (Returned("removeToken") /\ isBrowser) => TokenAbsent

----------------------------------------------------------------------------
(* C16 *)

NetworkUnits == {"MB/s", "Mbps"}

\* C16: getNetworkUnit returns "MB/s" or "Mbps" whatever the backends hold:
\* the stored value if it is one of the two, "MB/s" for any other stored
\* value and when nothing is stored.
C16_NetworkUnitIsValid ==
    Returned("getNetworkUnit") =>
        /\ last.ret \in NetworkUnits
        /\ (isBrowser /\ Working) =>
               last.ret = IF FoundValue(last.pre) \in NetworkUnits
                          THEN FoundValue(last.pre) ELSE "MB/s"

C16_Witness ==
    /\ Returned("getNetworkUnit") /\ isBrowser /\ Working
    /\ last.pre.cookie = "xyz"
    /\ last.ret = "MB/s"

----------------------------------------------------------------------------
(* C17 *)

\* the timezone the environment reports, "UTC" standing in for a failed or
\* empty answer
EnvironmentTimezone == IF envTz \in {TzThrows, ""} THEN "UTC" ELSE envTz

NothingStored(key) ==
    /\ CookieValue(jar, key) = NULL
    /\ StorageValue(ls, PrefixKey(key)) = NULL
    /\ StorageValue(ls, key) = NULL

C17_UnsetTimezoneStep ==
    (last'.op = "getTimezone" /\ isBrowser /\ NothingStored(TIMEZONE))
    => /\ lsFault # "throw" => ~last'.threw
       /\ ~last'.threw => last'.ret = EnvironmentTimezone
       /\ jar' = jar
       /\ ls' = ls

\* C17: with no timezone stored in any location, getTimezone returns the
\* timezone the environment reports at that moment and changes no entry of
\* either backend.
C17_UnsetTimezoneNotPersisted == [][C17_UnsetTimezoneStep]_vars

\* getTimezone has answered with the environment's second timezone and
\* still nothing is stored
C17_Witness ==
    /\ Returned("getTimezone") /\ isBrowser
    /\ last.pre.cookie = NULL /\ last.pre.prefixed = NULL /\ last.pre.legacy = NULL
    /\ envTz = "America/Lima"
    /\ last.ret = "America/Lima"
    /\ NothingStored(TIMEZONE)

----------------------------------------------------------------------------
(* C18 *)

\* C18: getTimezone returns a non-empty identifier: the stored preference
\* if a non-empty one is stored, else the environment's timezone, "UTC"
\* when the environment throws or answers with the empty string.
C18_TimezoneNonEmpty ==
    Returned("getTimezone") =>
        /\ Truthy(last.ret)
        /\ ~isBrowser => last.ret = "UTC"
        /\ (isBrowser /\ Working) =>
               last.ret = IF Truthy(FoundValue(last.pre))
                          THEN FoundValue(last.pre) ELSE EnvironmentTimezone

\* getTimezone after setTimezone(""), the environment answering ""
C18_Witness ==
    /\ Returned("getTimezone") /\ isBrowser /\ Working
    /\ last.pre.cookie = ""
    /\ envTz = ""
    /\ last.ret = "UTC"

----------------------------------------------------------------------------
(* C19 *)

PreferenceSetter(key) == IF key = TIMEZONE THEN "setTimezone" ELSE "setNetworkUnit"

PreferenceGetter(key) == IF key = TIMEZONE THEN "getTimezone" ELSE "getNetworkUnit"

\* a value a set of the preference keeps: a non-empty timezone, one of the
\* two unit literals
Persistable(key, v) == IF key = TIMEZONE THEN Truthy(v) ELSE v \in NetworkUnits

PersistableValues == {"Asia/Tokyo", "Europe/Paris", "Mbps", "MB/s"}

\* the preference is held as v: by the prefixed entry, and by the cookie
\* unless the browser has expired it
HeldAs(key, v) ==
    /\ StorageValue(ls, PrefixKey(key)) = v
    /\ CookieValue(jar, key) \in {NULL, v}

C19_SetHolds ==
    \A key \in PREFERENCE_KEYS :
        (Returned(PreferenceSetter(key)) /\ Working /\ Persistable(key, last.arg))
        => HeldAs(key, last.arg)

C19_HeldStep ==
    \A key \in PREFERENCE_KEYS, v \in PersistableValues :
        (/\ HeldAs(key, v) /\ Persistable(key, v)
         /\ last'.op # PreferenceSetter(key)
         /\ last'.op # "clearAll")
        => /\ HeldAs(key, v)'
           /\ (last'.op = PreferenceGetter(key) /\ ~last'.threw) => last'.ret = v

\* C19: after setTimezone(v) with non-empty v, or setNetworkUnit(u) with u
\* one of the two literals, on working backends, the preference is held as
\* that value; every step other than a set of that preference or clearAll
\* (other calls, clock advance, cookie expiry, backend faults) keeps it held,
\* and every get of it returns the value.
C19_PreferencePersists == []C19_SetHolds /\ [][C19_HeldStep]_vars

\* the timezone is read back after time has passed and the browser has
\* expired its cookie
C19_Witness ==
    /\ Returned("getTimezone")
    /\ now > 0
    /\ last.pre.cookie = NULL
    /\ last.pre.prefixed = "Asia/Tokyo"
    /\ last.ret = "Asia/Tokyo"

----------------------------------------------------------------------------
(* C20 *)

C20_ClearAllStep ==
    /\ (last'.op = "clearAll" /\ isBrowser /\ Working) =>
           /\ ~last'.threw
           /\ \A key \in PREFERENCE_KEYS : NothingStored(key)'
           /\ TokenCookies(jar') = TokenCookies(jar)
           /\ TokenStorage(ls') = TokenStorage(ls)
    /\ (Returned("clearAll") /\ isBrowser /\ Working) =>
           /\ last'.op = "getNetworkUnit" => (~last'.threw /\ last'.ret = "MB/s")
           /\ last'.op = "getTimezone" =>
                  (~last'.threw /\ last'.ret = EnvironmentTimezone)

\* C20: clearAll on working backends leaves history_timezone and
\* network_unit absent from the cookie, the prefixed key and the legacy key,
\* a following getNetworkUnit returns "MB/s" and a following getTimezone the
\* environment's timezone, and the cookie and the localStorage entries of
\* auth_token and auth_token_expiry are unchanged.
C20_ClearAllClearsOnlyPreferences == [][C20_ClearAllStep]_vars

\* clearAll has removed a stored timezone and unit and the token is still
\* in all its locations
C20_Witness ==
    /\ Returned("clearAll") /\ isBrowser /\ Working
    /\ last.pre.cookie = "Asia/Tokyo"
    /\ \A key \in PREFERENCE_KEYS : NothingStored(key)
    /\ CookieValue(jar, TOKEN_KEY) = JwtA
    /\ StorageValue(ls, PrefixKey(TOKEN_KEY)) = JwtA
    /\ StorageValue(ls, TOKEN_EXPIRY_KEY) # NULL

----------------------------------------------------------------------------
(* C21 *)

\* the lifetime the persisted layout gives each key, in days
KeyDays(name) == IF name = TOKEN_KEY THEN TokenDays ELSE PreferenceDays

\* C21: every cookie of history_timezone or network_unit in the jar was
\* written with a lifetime of 365 days and every cookie of auth_token with
\* 30 days, whether a set or a restore during a read wrote it.
C21_FixedTtlPerKey == \A c \in jar : c.name \in Keys => c.ttl = KeyDays(c.name)

----------------------------------------------------------------------------
(* C22 *)

\* what each operation returns when there is no window
ServerResult(op) ==
    CASE op = "getToken" -> NULL
      [] op = "isAuthenticated" -> "false"
      [] op = "getNetworkUnit" -> "MB/s"
      [] op = "getTimezone" -> "UTC"
      [] OTHER -> NULL

PublicCalls ==
    {"setToken", "getToken", "removeToken", "isAuthenticated", "getTimezone",
     "setTimezone", "getNetworkUnit", "setNetworkUnit", "clearAll"}

C22_ServerStep ==
    (~isBrowser /\ last'.op \in PublicCalls) =>
        /\ ~last'.threw
        /\ jar' = jar
        /\ ls' = ls
        /\ last'.ret = ServerResult(last'.op)

\* C22: outside a browser every operation returns without throwing and
\* leaves both backends as they were; getToken returns absent,
\* isAuthenticated false, getNetworkUnit "MB/s" and getTimezone "UTC".
C22_NoOpOutsideBrowser == [][C22_ServerStep]_vars

\* setToken has returned on the server and nothing is stored
C22_Witness ==
    /\ ~isBrowser
    /\ Returned("setToken") /\ last.arg = JwtA
    /\ jar = {} /\ ls = EmptyStorage

----------------------------------------------------------------------------
(* C23 *)

Undecodable(token) == ~decodeToken(token).ok

StoredEverywhere(j, l, token) ==
    /\ CookieValue(j, TOKEN_KEY) = token
    /\ StorageValue(l, PrefixKey(TOKEN_KEY)) = token
    /\ StorageValue(l, TOKEN_KEY) = token

C23_StoreStep ==
    /\ (last'.op = "setToken" /\ isBrowser /\ Working) =>
           /\ ~last'.threw
           /\ StoredEverywhere(jar', ls', last'.arg)
           /\ Undecodable(last'.arg) => StorageValue(ls', TOKEN_EXPIRY_KEY) = NULL
    /\ (Returned("setToken") /\ isBrowser /\ Working /\ Undecodable(last.arg)) =>
           /\ last'.op = "getToken" => (last'.ret = NULL /\ TokenAbsent')
           /\ last'.op = "isAuthenticated" => (last'.ret = "false" /\ TokenAbsent')
           /\ last'.op \notin {"setToken", "getToken", "removeToken", "isAuthenticated"}
                  => StoredEverywhere(jar', ls', last.arg)

\* C23: setToken(raw) on working backends stores raw in the cookie, the
\* prefixed entry and the legacy entry whether or not raw decodes; after an
\* undecodable raw no expiry is cached, the token stays stored over the
\* steps that are not token calls, and the getToken / isAuthenticated that
\* follows returns absent / false and leaves no token entry behind.
C23_UndecodableIsStored == [][C23_StoreStep]_vars

----------------------------------------------------------------------------
(* C24 *)

C24_AfterLogoutStep ==
    (Returned("removeToken") /\ isBrowser) =>
        /\ (last'.op = "getToken" /\ ~last'.threw) => Falsy(last'.ret)
        /\ (last'.op = "isAuthenticated" /\ ~last'.threw) => last'.ret = "false"

\* C24: once removeToken has returned, under any fault mode of the two
\* backends, the getToken that follows returns no token and the
\* isAuthenticated that follows returns false.
C24_LogoutStaysEffective == [][C24_AfterLogoutStep]_vars

----------------------------------------------------------------------------
(* C25 *)

\* the cookies other than the probe
NonProbe(j) == {c \in j : c.name # ProbeName}

C25_ProbeStep ==
    (last'.op = "cookiesAvailable" /\ isBrowser) =>
        /\ ~last'.threw
        /\ last'.ret = BoolStr(cookieFault = "ok")
        /\ NonProbe(jar') = NonProbe(jar)
        /\ ls' = ls

\* C25: cookiesAvailable returns true exactly when document.cookie takes
\* the probe write (it neither throws nor drops it), whatever cookies the
\* jar held before, and it changes no cookie other than the probe and no
\* localStorage entry.
C25_ProbeReportsPersistence == [][C25_ProbeStep]_vars

----------------------------------------------------------------------------
(* C26 *)

\* the last call was a setToken that returned and replaced another token
\* held by the cookie
Superseded ==
    /\ Returned("setToken") /\ isBrowser
    /\ Truthy(last.pre.cookie)
    /\ last.pre.cookie # last.arg

C26_ReadAfterWriteStep ==
    (Superseded /\ last'.op = "getToken") =>
        /\ last'.ret # last.pre.cookie
        /\ StorageValue(ls', PrefixKey(TOKEN_KEY)) # last.pre.cookie
        /\ StorageValue(ls', TOKEN_KEY) # last.pre.cookie

\* C26: after setToken(t2) has returned over a stored token t1, under any
\* fault mode, the getToken that follows does not return t1 and does not
\* write t1 back into localStorage.
C26_ReadYourWrites == [][C26_ReadAfterWriteStep]_vars

----------------------------------------------------------------------------
(* C27 *)

\* C27: every protected API request that ServiceList or ContainerList
\* issues (list, item action, logs, image pull) carries a token, that is,
\* getToken was not absent when the request was made.
C27_RequestsCarryToken == request # NoRequest => Truthy(request.bearer)

----------------------------------------------------------------------------
(* C28 *)

\* the raw token an independent read of the store finds
StoredToken == FoundToken(Snapshot(jar, ls, TOKEN_KEY))

\* C28: whenever auth_token_expiry is present, a raw token is stored and
\* the entry is the exp claim of that token.
C28_CachedExpiryIsCurrent ==
    StorageValue(ls, TOKEN_EXPIRY_KEY) # NULL =>
        /\ Truthy(StoredToken)
        /\ decodeToken(StoredToken).ok
        /\ ExpTruthy(decodeToken(StoredToken).exp)
        /\ StorageValue(ls, TOKEN_EXPIRY_KEY) = ExpToString(decodeToken(StoredToken).exp)

----------------------------------------------------------------------------
(* C29 *)

\* what the cached expiry may be made to hold
ExpiryValues == {NULL, "0", "90", "150", "4102444800"}

\* localStorage l with auth_token_expiry absent or set to e
WithExpiry(l, e) ==
    IF e = NULL THEN Del(l, TOKEN_EXPIRY_KEY) ELSE Put(l, TOKEN_EXPIRY_KEY, e)

\* the two outcomes agree on everything but the cached expiry
SameButExpiry(a, b) ==
    /\ a.jar = b.jar
    /\ Del(a.ls, TOKEN_EXPIRY_KEY) = Del(b.ls, TOKEN_EXPIRY_KEY)
    /\ a.ex = b.ex

\* C29: in every reachable state and for every other value or absence of
\* auth_token_expiry, getToken and isAuthenticated at the same clock value
\* return the same result and leave the same token entries.
C29_CachedExpiryIsNotTrusted ==
    \A e \in ExpiryValues :
        LET here == Store(jar, ls)
            there == Store(jar, WithExpiry(ls, e))
        IN  /\ getToken(here).v = getToken(there).v
            /\ SameButExpiry(getToken(here).s, getToken(there).s)
            /\ isAuthenticated(here).b = isAuthenticated(there).b
            /\ SameButExpiry(isAuthenticated(here).s, isAuthenticated(there).s)

\* getToken has returned a valid token while the cached expiry is that of
\* another token
C29_Witness ==
    /\ Returned("getToken") /\ last.ret = JwtB
    /\ StorageValue(ls, TOKEN_EXPIRY_KEY) = "90"

----------------------------------------------------------------------------
(* C30 *)

Getters == {"getToken", "getTimezone", "getNetworkUnit"}

C30_SecondReadStep ==
    (/\ last.op \in Getters /\ ~last.threw
     /\ isBrowser /\ Working
     /\ last'.op = last.op)
    => /\ ~last'.threw
       /\ last'.ret = last.ret
       /\ jar' = jar
       /\ ls' = ls

\* C30: on working backends and with the clock unchanged, a getToken that
\* follows a getToken (likewise getTimezone, getNetworkUnit) returns what
\* the first returned and changes no cookie and no localStorage entry.
C30_ReadsConverge == [][C30_SecondReadStep]_vars

\* a second getTimezone: the cookie it finds carries the lifetime that only
\* the restore of an earlier read gives it, next to a differing legacy entry
C30_Witness ==
    /\ Returned("getTimezone") /\ isBrowser /\ Working
    /\ last.pre.cookie = "Asia/Tokyo"
    /\ last.pre.legacy = "Europe/Paris"
    /\ last.ret = "Asia/Tokyo"
    /\ \E c \in jar : c.name = TIMEZONE /\ c.ttl = DefaultDays

----------------------------------------------------------------------------
(* C31 *)

\* the log requests that still await their response
LogFlights == {f \in view.flights : f.kind = "logs"}

\* C31: once every log request in flight has settled, the logs shown in
\* the modal are the response, or the error, of a request for the service
\* or container that the modal title names.
C31_LogsBelongToTitle ==
    (LogFlights = {} /\ view.title # "") => view.logs.target = view.title

----------------------------------------------------------------------------
(* C32 *)

\* the action requests that still await their response
ActionFlights == {f \in view.flights : f.kind = "action"}

\* C32: while a request of handleServiceAction or handleContainerAction is
\* in flight, actionLoading is the key of an action in flight; it is null
\* only when no action request is in flight.
C32_ActionLoadingTracksFlights ==
    ActionFlights # {} => \E f \in ActionFlights : view.actionLoading = f.key

----------------------------------------------------------------------------
(* C33 *)

\* the structure a SystemMetrics value has: cpu, memory and disk are
\* objects with a percent, network is an object
WellFormed(data) ==
    /\ data.type = "object"
    /\ data.cpu = "percent"
    /\ data.memory = "percent"
    /\ data.disk = "percent"
    /\ data.network \in {"object", "percent"}

ValidPoll(response) == response.kind = "data" /\ WellFormed(response.data)

\* a poll settles in this step
PollSettles == hook'.polls < hook.polls

C33_PollStep ==
    /\ hook'.metrics # NoData => WellFormed(hook'.metrics)
    /\ hook'.settled # NoResponse => (hook'.error = NULL <=> ValidPoll(hook'.settled))
    /\ PollSettles =>
           IF ValidPoll(hook'.settled)
           THEN hook'.metrics = hook'.settled.data /\ hook'.error = NULL
           ELSE hook'.metrics = hook.metrics /\ hook'.error # NULL

\* C33: metrics is only ever a response that has the structure of
\* SystemMetrics; a poll that throws or returns other data leaves metrics
\* unchanged and sets error non-null, a valid poll stores its data and sets
\* error to null; so error is null exactly when the poll that settled last
\* was valid.
C33_MetricsAreValid == [][C33_PollStep]_vars

\* valid metrics were kept while a later poll failed
C33_Witness ==
    /\ hook.metrics # NoData
    /\ hook.settled # NoResponse
    /\ ~ValidPoll(hook.settled)
    /\ hook.error # NULL

----------------------------------------------------------------------------
(* C34 *)

\* loading is true until a poll has settled
LoadingUntilSettled(h) == h.loading <=> h.settled = NoResponse

C34_LoadingStep ==
    /\ LoadingUntilSettled(hook)
    /\ LoadingUntilSettled(hook')
    /\ ~hook.loading => ~hook'.loading
    /\ (hook.effect = "cleaned" /\ hook'.effect = "cleaned") => hook'.polls <= hook.polls

\* C34: loading is true at first, is false once a fetch has settled in
\* whatever way, and is never true again; once the cleanup of the effect
\* has run, no poll starts until the effect runs again.
C34_LoadingLifecycle == [][C34_LoadingStep]_vars

\* after the cleanup, with the only settled poll a thrown error
C34_Witness ==
    /\ hook.effect = "cleaned"
    /\ hook.polls = 0
    /\ hook.settled.kind = "error"
    /\ hook.metrics = NoData
    /\ ~hook.loading

====
